---- MODULE Spec2Model ----
(***************************************************************************)
(* The job queue of the financial document analyzer: QueueManager          *)
(* (queue_worker.py) over the analysis_queue / analysis_results tables     *)
(* (database.py), the RQ worker (start_worker) and the HTTP endpoints of   *)
(* enhanced_main.py that submit to it and poll it.                         *)
(*                                                                         *)
(* The store is one SQLite file shared by the web process and the worker   *)
(* processes.  Every db.commit() and every SELECT is one atomic step, and  *)
(* so is the reading of the clock that precedes a commit; a handler is a   *)
(* sequence of such steps, and steps of different execution contexts       *)
(* interleave freely.                                                      *)
(***************************************************************************)
EXTENDS Integers, Sequences, FiniteSets, TLC

(* ------------------------------ bounds -------------------------------- *)
\* Number of submissions explored.
MaxJobs == 2
\* How many redeliveries the broker makes in all (at-least-once delivery:
\* every enqueued id is delivered once, and some are delivered again).
MaxRedeliveries == 1

\* Number of submissions explored where the broker delivers ids again.
MaxJobsAgain == 1

\* Number of submissions explored next to clients of the status endpoint.
MaxJobsStatus == 1
\* Largest id a client asks the status endpoint about.
MaxHandleId == 10
\* Number of uploads to POST /analyze explored.
MaxImmediate == 1

(* -------------------------- execution contexts ------------------------ *)
\* RQ worker processes running start_worker(), numbered.
Workers == {1, 2}
\* Request-handling context of the web process (the endpoints are async
\* functions that never yield inside add_to_queue, so one context).
Requests == {0}
Ctx == Workers \cup Requests

(* ------------------------------ inputs -------------------------------- *)
\* The query of a form that left the field alone (enhanced_main.py:70).
DefaultQuery == "Analyze this financial document for investment insights"

\* The submissions explored.  user_id: 0 is a legal integer id.  priority:
\* 1=low, 3=high (database.py:52).  query: "" is what query.strip() gives
\* for a blank field.  doc stands for the file behind file_path: "ok" is
\* read and analysed well inside the job timeout, "slow" is one whose
\* processing runs longer than job_timeout, "missing" is a path with no
\* file behind it, "malformed" is a file that PyPDF2 cannot read.
Submissions ==
    { [ user_id |-> 1, filename |-> "a.pdf", doc |-> "ok",
        query |-> DefaultQuery, priority |-> 1 ],
      [ user_id |-> 0, filename |-> "a.pdf", doc |-> "ok",
        query |-> "", priority |-> 3 ],
      [ user_id |-> 1, filename |-> "a.pdf", doc |-> "slow",
        query |-> DefaultQuery, priority |-> 1 ],
      [ user_id |-> 1, filename |-> "a.pdf", doc |-> "missing",
        query |-> DefaultQuery, priority |-> 1 ],
      [ user_id |-> 1, filename |-> "a.pdf", doc |-> "malformed",
        query |-> DefaultQuery, priority |-> 1 ] }

(* ----------------------------- constants ------------------------------ *)
\* A nullable DateTime column that holds NULL.
NullTime == 0
\* A nullable Text column that holds NULL.
NullText == "NULL"
\* str(e) of rq's JobTimeoutException for job_timeout='10m'.
TimeoutMessage == "Task exceeded maximum timeout value (600 seconds)"
\* str(e) of the exception a statement raises when the store fails under it.
StoreMessage == "database is locked"

Statuses == {"pending", "processing", "completed", "failed"}
Terminal == {"completed", "failed"}

VARIABLES
    jobs,            \* table analysis_queue: sequence of rows, id = index
    results,         \* table analysis_results: sequence of rows, id = index
    redisUp,         \* the Redis server answers
    REDIS_CONNECTED, \* module flag of the web process, set once at import
    enqueued,        \* job ids handed to the RQ queue 'financial_analysis'
    delivered,       \* per job id: number of deliveries to a worker so far
    pc,              \* per context: position in its handler
    queue_id,        \* per context: argument of process_document
    queue_item,      \* per context: the ORM object as last loaded
    raised,          \* per context: an exception is on its way to line 132
    session,         \* per context: what its db session holds uncommitted
    alarm,           \* per worker: where the job timeout will yet surface
    ret,             \* per request context: what the endpoint returned last
    now,             \* logical clock behind datetime.utcnow(): per job id as
                     \* the job's timestamps read it, under 0 as created_at
                     \* of analysis_results reads it
    calls,           \* per job id: invocations of the analysis pipeline
    path,            \* per job id: how add_to_queue handed it over
    outcome,         \* per job id: how its last analysis ended
    pollPc,          \* the polling context: position in its handler
    statusView,      \* response of GET /analyze/status/{queue_id} in the making
    queueView        \* result of get_queue_status in the making

vars == << jobs, results, redisUp, REDIS_CONNECTED, enqueued, delivered, pc,
           queue_id, queue_item, raised, session, alarm, ret, now, calls,
           path, outcome, pollPc, statusView, queueView >>

JobIds == 1..MaxJobs

(* ------------------------------ strings ------------------------------- *)
\* A Python str is the sequence of its characters.
Digits == << "0", "1", "2", "3", "4", "5", "6", "7", "8", "9" >>

\* str(n) of a non-negative int: its decimal digits.
RECURSIVE Str(_)
Str(n) ==
    IF n < 10 THEN << Digits[n + 1] >>
    ELSE Str(n \div 10) \o << Digits[(n % 10) + 1] >>

\* "queued_redis_" (line 69, and enhanced_main.py:120).
QueuedPrefix ==
    << "q", "u", "e", "u", "e", "d", "_", "r", "e", "d", "i", "s", "_" >>

\* "analysis_" (line 67): the RQ job id is analysis_<queue_item.id>.
JobIdPrefix ==
    << "a", "n", "a", "l", "y", "s", "i", "s", "_" >>

\* "processed_immediate_" (line 73, and enhanced_main.py:122).
ImmediatePrefix ==
    << "p", "r", "o", "c", "e", "s", "s", "e", "d", "_", "i", "m", "m",
       "e", "d", "i", "a", "t", "e", "_" >>

\* The string add_to_queue returns: f"queued_redis_{job.id}" with job.id =
\* f"analysis_{queue_item.id}" (lines 67, 69), or
\* f"processed_immediate_{queue_item.id}" (line 73).
Handle(kind, id) ==
    IF kind = "queued_redis"
    THEN QueuedPrefix \o JobIdPrefix \o Str(id)
    ELSE ImmediatePrefix \o Str(id)

\* s.startswith(p)
StartsWith(s, p) == Len(s) >= Len(p) /\ SubSeq(s, 1, Len(p)) = p

\* s.split("_")[0]: what precedes the first underscore, or all of s.
FirstPiece(s) ==
    LET cuts == { i \in 1..Len(s) : s[i] = "_" }
        first == IF cuts = {} THEN Len(s) + 1
                 ELSE CHOOSE i \in cuts : \A k \in cuts : i <= k
    IN  SubSeq(s, 1, first - 1)

\* s.split("_")[-1]: what follows the last underscore, or all of s.
LastPiece(s) ==
    LET cuts == { i \in 1..Len(s) : s[i] = "_" }
        last == IF cuts = {} THEN 0
                ELSE CHOOSE i \in cuts : \A k \in cuts : k <= i
    IN  SubSeq(s, last + 1, Len(s))

\* Characters that no string literal can hold are written by code point:
\* "U+0661" is the one character ARABIC-INDIC DIGIT ONE.
\* The characters int() strips off both ends of its argument: the ASCII
\* blanks and the whitespace beyond ASCII.  (The separators U+001C-U+001F
\* are whitespace to str.isspace() but are not stripped by int().)
Whitespace ==
    { " ", "\t", "\n", "\r", "\f", "U+000B", "U+0085", "U+00A0", "U+1680",
      "U+2000", "U+2001", "U+2002", "U+2003", "U+2004", "U+2005", "U+2006",
      "U+2007", "U+2008", "U+2009", "U+200A", "U+2028", "U+2029", "U+202F",
      "U+205F", "U+3000" }

\* sys.int_info.default_max_str_digits: int() raises ValueError for a text
\* of more digits.
IntMaxStrDigits == 4300

\* The characters int() reads as decimal digits: the digits 0-9 of every
\* script (Unicode 14.0, category Nd), one row per script.
DecimalDigits ==
    << Digits,
       << "U+0660", "U+0661", "U+0662", "U+0663", "U+0664",
          "U+0665", "U+0666", "U+0667", "U+0668", "U+0669" >>,
       << "U+06F0", "U+06F1", "U+06F2", "U+06F3", "U+06F4",
          "U+06F5", "U+06F6", "U+06F7", "U+06F8", "U+06F9" >>,
       << "U+07C0", "U+07C1", "U+07C2", "U+07C3", "U+07C4",
          "U+07C5", "U+07C6", "U+07C7", "U+07C8", "U+07C9" >>,
       << "U+0966", "U+0967", "U+0968", "U+0969", "U+096A",
          "U+096B", "U+096C", "U+096D", "U+096E", "U+096F" >>,
       << "U+09E6", "U+09E7", "U+09E8", "U+09E9", "U+09EA",
          "U+09EB", "U+09EC", "U+09ED", "U+09EE", "U+09EF" >>,
       << "U+0A66", "U+0A67", "U+0A68", "U+0A69", "U+0A6A",
          "U+0A6B", "U+0A6C", "U+0A6D", "U+0A6E", "U+0A6F" >>,
       << "U+0AE6", "U+0AE7", "U+0AE8", "U+0AE9", "U+0AEA",
          "U+0AEB", "U+0AEC", "U+0AED", "U+0AEE", "U+0AEF" >>,
       << "U+0B66", "U+0B67", "U+0B68", "U+0B69", "U+0B6A",
          "U+0B6B", "U+0B6C", "U+0B6D", "U+0B6E", "U+0B6F" >>,
       << "U+0BE6", "U+0BE7", "U+0BE8", "U+0BE9", "U+0BEA",
          "U+0BEB", "U+0BEC", "U+0BED", "U+0BEE", "U+0BEF" >>,
       << "U+0C66", "U+0C67", "U+0C68", "U+0C69", "U+0C6A",
          "U+0C6B", "U+0C6C", "U+0C6D", "U+0C6E", "U+0C6F" >>,
       << "U+0CE6", "U+0CE7", "U+0CE8", "U+0CE9", "U+0CEA",
          "U+0CEB", "U+0CEC", "U+0CED", "U+0CEE", "U+0CEF" >>,
       << "U+0D66", "U+0D67", "U+0D68", "U+0D69", "U+0D6A",
          "U+0D6B", "U+0D6C", "U+0D6D", "U+0D6E", "U+0D6F" >>,
       << "U+0DE6", "U+0DE7", "U+0DE8", "U+0DE9", "U+0DEA",
          "U+0DEB", "U+0DEC", "U+0DED", "U+0DEE", "U+0DEF" >>,
       << "U+0E50", "U+0E51", "U+0E52", "U+0E53", "U+0E54",
          "U+0E55", "U+0E56", "U+0E57", "U+0E58", "U+0E59" >>,
       << "U+0ED0", "U+0ED1", "U+0ED2", "U+0ED3", "U+0ED4",
          "U+0ED5", "U+0ED6", "U+0ED7", "U+0ED8", "U+0ED9" >>,
       << "U+0F20", "U+0F21", "U+0F22", "U+0F23", "U+0F24",
          "U+0F25", "U+0F26", "U+0F27", "U+0F28", "U+0F29" >>,
       << "U+1040", "U+1041", "U+1042", "U+1043", "U+1044",
          "U+1045", "U+1046", "U+1047", "U+1048", "U+1049" >>,
       << "U+1090", "U+1091", "U+1092", "U+1093", "U+1094",
          "U+1095", "U+1096", "U+1097", "U+1098", "U+1099" >>,
       << "U+17E0", "U+17E1", "U+17E2", "U+17E3", "U+17E4",
          "U+17E5", "U+17E6", "U+17E7", "U+17E8", "U+17E9" >>,
       << "U+1810", "U+1811", "U+1812", "U+1813", "U+1814",
          "U+1815", "U+1816", "U+1817", "U+1818", "U+1819" >>,
       << "U+1946", "U+1947", "U+1948", "U+1949", "U+194A",
          "U+194B", "U+194C", "U+194D", "U+194E", "U+194F" >>,
       << "U+19D0", "U+19D1", "U+19D2", "U+19D3", "U+19D4",
          "U+19D5", "U+19D6", "U+19D7", "U+19D8", "U+19D9" >>,
       << "U+1A80", "U+1A81", "U+1A82", "U+1A83", "U+1A84",
          "U+1A85", "U+1A86", "U+1A87", "U+1A88", "U+1A89" >>,
       << "U+1A90", "U+1A91", "U+1A92", "U+1A93", "U+1A94",
          "U+1A95", "U+1A96", "U+1A97", "U+1A98", "U+1A99" >>,
       << "U+1B50", "U+1B51", "U+1B52", "U+1B53", "U+1B54",
          "U+1B55", "U+1B56", "U+1B57", "U+1B58", "U+1B59" >>,
       << "U+1BB0", "U+1BB1", "U+1BB2", "U+1BB3", "U+1BB4",
          "U+1BB5", "U+1BB6", "U+1BB7", "U+1BB8", "U+1BB9" >>,
       << "U+1C40", "U+1C41", "U+1C42", "U+1C43", "U+1C44",
          "U+1C45", "U+1C46", "U+1C47", "U+1C48", "U+1C49" >>,
       << "U+1C50", "U+1C51", "U+1C52", "U+1C53", "U+1C54",
          "U+1C55", "U+1C56", "U+1C57", "U+1C58", "U+1C59" >>,
       << "U+A620", "U+A621", "U+A622", "U+A623", "U+A624",
          "U+A625", "U+A626", "U+A627", "U+A628", "U+A629" >>,
       << "U+A8D0", "U+A8D1", "U+A8D2", "U+A8D3", "U+A8D4",
          "U+A8D5", "U+A8D6", "U+A8D7", "U+A8D8", "U+A8D9" >>,
       << "U+A900", "U+A901", "U+A902", "U+A903", "U+A904",
          "U+A905", "U+A906", "U+A907", "U+A908", "U+A909" >>,
       << "U+A9D0", "U+A9D1", "U+A9D2", "U+A9D3", "U+A9D4",
          "U+A9D5", "U+A9D6", "U+A9D7", "U+A9D8", "U+A9D9" >>,
       << "U+A9F0", "U+A9F1", "U+A9F2", "U+A9F3", "U+A9F4",
          "U+A9F5", "U+A9F6", "U+A9F7", "U+A9F8", "U+A9F9" >>,
       << "U+AA50", "U+AA51", "U+AA52", "U+AA53", "U+AA54",
          "U+AA55", "U+AA56", "U+AA57", "U+AA58", "U+AA59" >>,
       << "U+ABF0", "U+ABF1", "U+ABF2", "U+ABF3", "U+ABF4",
          "U+ABF5", "U+ABF6", "U+ABF7", "U+ABF8", "U+ABF9" >>,
       << "U+FF10", "U+FF11", "U+FF12", "U+FF13", "U+FF14",
          "U+FF15", "U+FF16", "U+FF17", "U+FF18", "U+FF19" >>,
       << "U+104A0", "U+104A1", "U+104A2", "U+104A3", "U+104A4",
          "U+104A5", "U+104A6", "U+104A7", "U+104A8", "U+104A9" >>,
       << "U+10D30", "U+10D31", "U+10D32", "U+10D33", "U+10D34",
          "U+10D35", "U+10D36", "U+10D37", "U+10D38", "U+10D39" >>,
       << "U+11066", "U+11067", "U+11068", "U+11069", "U+1106A",
          "U+1106B", "U+1106C", "U+1106D", "U+1106E", "U+1106F" >>,
       << "U+110F0", "U+110F1", "U+110F2", "U+110F3", "U+110F4",
          "U+110F5", "U+110F6", "U+110F7", "U+110F8", "U+110F9" >>,
       << "U+11136", "U+11137", "U+11138", "U+11139", "U+1113A",
          "U+1113B", "U+1113C", "U+1113D", "U+1113E", "U+1113F" >>,
       << "U+111D0", "U+111D1", "U+111D2", "U+111D3", "U+111D4",
          "U+111D5", "U+111D6", "U+111D7", "U+111D8", "U+111D9" >>,
       << "U+112F0", "U+112F1", "U+112F2", "U+112F3", "U+112F4",
          "U+112F5", "U+112F6", "U+112F7", "U+112F8", "U+112F9" >>,
       << "U+11450", "U+11451", "U+11452", "U+11453", "U+11454",
          "U+11455", "U+11456", "U+11457", "U+11458", "U+11459" >>,
       << "U+114D0", "U+114D1", "U+114D2", "U+114D3", "U+114D4",
          "U+114D5", "U+114D6", "U+114D7", "U+114D8", "U+114D9" >>,
       << "U+11650", "U+11651", "U+11652", "U+11653", "U+11654",
          "U+11655", "U+11656", "U+11657", "U+11658", "U+11659" >>,
       << "U+116C0", "U+116C1", "U+116C2", "U+116C3", "U+116C4",
          "U+116C5", "U+116C6", "U+116C7", "U+116C8", "U+116C9" >>,
       << "U+11730", "U+11731", "U+11732", "U+11733", "U+11734",
          "U+11735", "U+11736", "U+11737", "U+11738", "U+11739" >>,
       << "U+118E0", "U+118E1", "U+118E2", "U+118E3", "U+118E4",
          "U+118E5", "U+118E6", "U+118E7", "U+118E8", "U+118E9" >>,
       << "U+11950", "U+11951", "U+11952", "U+11953", "U+11954",
          "U+11955", "U+11956", "U+11957", "U+11958", "U+11959" >>,
       << "U+11C50", "U+11C51", "U+11C52", "U+11C53", "U+11C54",
          "U+11C55", "U+11C56", "U+11C57", "U+11C58", "U+11C59" >>,
       << "U+11D50", "U+11D51", "U+11D52", "U+11D53", "U+11D54",
          "U+11D55", "U+11D56", "U+11D57", "U+11D58", "U+11D59" >>,
       << "U+11DA0", "U+11DA1", "U+11DA2", "U+11DA3", "U+11DA4",
          "U+11DA5", "U+11DA6", "U+11DA7", "U+11DA8", "U+11DA9" >>,
       << "U+16A60", "U+16A61", "U+16A62", "U+16A63", "U+16A64",
          "U+16A65", "U+16A66", "U+16A67", "U+16A68", "U+16A69" >>,
       << "U+16AC0", "U+16AC1", "U+16AC2", "U+16AC3", "U+16AC4",
          "U+16AC5", "U+16AC6", "U+16AC7", "U+16AC8", "U+16AC9" >>,
       << "U+16B50", "U+16B51", "U+16B52", "U+16B53", "U+16B54",
          "U+16B55", "U+16B56", "U+16B57", "U+16B58", "U+16B59" >>,
       << "U+1D7CE", "U+1D7CF", "U+1D7D0", "U+1D7D1", "U+1D7D2",
          "U+1D7D3", "U+1D7D4", "U+1D7D5", "U+1D7D6", "U+1D7D7" >>,
       << "U+1D7D8", "U+1D7D9", "U+1D7DA", "U+1D7DB", "U+1D7DC",
          "U+1D7DD", "U+1D7DE", "U+1D7DF", "U+1D7E0", "U+1D7E1" >>,
       << "U+1D7E2", "U+1D7E3", "U+1D7E4", "U+1D7E5", "U+1D7E6",
          "U+1D7E7", "U+1D7E8", "U+1D7E9", "U+1D7EA", "U+1D7EB" >>,
       << "U+1D7EC", "U+1D7ED", "U+1D7EE", "U+1D7EF", "U+1D7F0",
          "U+1D7F1", "U+1D7F2", "U+1D7F3", "U+1D7F4", "U+1D7F5" >>,
       << "U+1D7F6", "U+1D7F7", "U+1D7F8", "U+1D7F9", "U+1D7FA",
          "U+1D7FB", "U+1D7FC", "U+1D7FD", "U+1D7FE", "U+1D7FF" >>,
       << "U+1E140", "U+1E141", "U+1E142", "U+1E143", "U+1E144",
          "U+1E145", "U+1E146", "U+1E147", "U+1E148", "U+1E149" >>,
       << "U+1E2F0", "U+1E2F1", "U+1E2F2", "U+1E2F3", "U+1E2F4",
          "U+1E2F5", "U+1E2F6", "U+1E2F7", "U+1E2F8", "U+1E2F9" >>,
       << "U+1E950", "U+1E951", "U+1E952", "U+1E953", "U+1E954",
          "U+1E955", "U+1E956", "U+1E957", "U+1E958", "U+1E959" >>,
       << "U+1FBF0", "U+1FBF1", "U+1FBF2", "U+1FBF3", "U+1FBF4",
          "U+1FBF5", "U+1FBF6", "U+1FBF7", "U+1FBF8", "U+1FBF9" >> >>

\* The character is a decimal digit.
IsDigit(ch) ==
    \E k \in 1..Len(DecimalDigits) : \E d \in 1..10 :
        ch = DecimalDigits[k][d]

\* The value of a decimal digit.
DigitValue(ch) ==
    (CHOOSE d \in 1..10 :
        \E k \in 1..Len(DecimalDigits) : ch = DecimalDigits[k][d]) - 1

\* s without the whitespace int() strips at its two ends.
Strip(s) ==
    LET solid == { i \in 1..Len(s) : s[i] \notin Whitespace }
    IN  IF solid = {} THEN << >>
        ELSE SubSeq(s, CHOOSE i \in solid : \A k \in solid : i <= k,
                       CHOOSE i \in solid : \A k \in solid : k <= i)

\* What int() reads after the whitespace is stripped and one leading sign
\* is taken off.
Unsigned(s) ==
    LET t == Strip(s)
    IN  IF Len(t) > 0 /\ t[1] \in { "+", "-" } THEN SubSeq(t, 2, Len(t))
        ELSE t

\* int(s) raises no ValueError: between optional whitespace, an optional
\* sign and then decimal digits, with single underscores allowed between
\* two digits, and no more than IntMaxStrDigits digits.
IsInt(s) ==
    LET u == Unsigned(s)
    IN  /\ Len(u) > 0
        /\ Cardinality({ i \in 1..Len(u) : IsDigit(u[i]) }) <= IntMaxStrDigits
        /\ IsDigit(u[1])
        /\ IsDigit(u[Len(u)])
        /\ \A i \in 1..Len(u) : IsDigit(u[i]) \/ u[i] = "_"
        /\ \A i \in 1..(Len(u) - 1) : ~(u[i] = "_" /\ u[i + 1] = "_")

\* The number a run of digits and underscores stands for.
RECURSIVE DigitsValue(_)
DigitsValue(u) ==
    IF Len(u) = 0 THEN 0
    ELSE IF u[Len(u)] = "_" THEN DigitsValue(SubSeq(u, 1, Len(u) - 1))
    ELSE 10 * DigitsValue(SubSeq(u, 1, Len(u) - 1)) + DigitValue(u[Len(u)])

\* int(s) of a text int() accepts.
ToInt(s) ==
    LET t == Strip(s)
    IN  IF t[1] = "-" THEN 0 - DigitsValue(Unsigned(s))
        ELSE DigitsValue(Unsigned(s))

\* Lines 120-125 of enhanced_main.py: the text that goes into int().
IdText(queue_id_str) ==
    IF StartsWith(queue_id_str, QueuedPrefix)
    THEN LastPiece(queue_id_str)
    ELSE IF StartsWith(queue_id_str, ImmediatePrefix)
         THEN LastPiece(queue_id_str)
         ELSE queue_id_str

\* The digits of a text int() accepts as numbers, most significant first,
\* without the sign, the underscores and the leading zeros: the magnitude
\* of the int, of whatever length.
Magnitude(s) ==
    LET d  == SelectSeq(Unsigned(s), IsDigit)
        v  == [ i \in 1..Len(d) |-> DigitValue(d[i]) ]
        nz == { i \in 1..Len(v) : v[i] # 0 }
    IN  IF nz = {} THEN << >>
        ELSE SubSeq(v, CHOOSE i \in nz : \A k \in nz : i <= k, Len(v))

\* int(s) < 0.
IsNegative(s) == Strip(s)[1] = "-" /\ Magnitude(s) # << >>

\* a <= b for two magnitudes.
AtMost(a, b) ==
    \/ Len(a) < Len(b)
    \/ /\ Len(a) = Len(b)
       /\ \/ a = b
          \/ \E i \in 1..Len(a) :
                /\ a[i] < b[i]
                /\ \A k \in 1..(i - 1) : a[k] = b[k]

\* 2^63 - 1 and 2^63: the ends of the range of a SQLite INTEGER, the type
\* of analysis_queue.id.
SqliteMaxInteger ==
    << 9, 2, 2, 3, 3, 7, 2, 0, 3, 6, 8, 5, 4, 7, 7, 5, 8, 0, 7 >>
SqliteMinMagnitude ==
    << 9, 2, 2, 3, 3, 7, 2, 0, 3, 6, 8, 5, 4, 7, 7, 5, 8, 0, 8 >>

\* The int can be bound as a parameter of the SELECT of
\* enhanced_main.py:127; sqlite3 raises OverflowError for any other.
FitsInteger(s) ==
    IF IsNegative(s) THEN AtMost(Magnitude(s), SqliteMinMagnitude)
    ELSE AtMost(Magnitude(s), SqliteMaxInteger)

(* ------------------------------ the rows ------------------------------ *)
\* The row of lines 50-57 with started_at filled in at creation.
NewQueueItemStarted(user_id, filename, doc, query, priority, t) ==
    [ user_id       |-> user_id,
      filename      |-> filename,
      file_path     |-> doc,
      query         |-> query,
      priority      |-> priority,
      status        |-> "pending",
      created_at    |-> t,
      started_at    |-> t,
      completed_at  |-> NullTime,
      error_message |-> NullText ]

\* AnalysisQueue(...) as add_to_queue builds it; the column defaults fill
\* status, created_at, and the nullable columns stay NULL.
NewQueueItem(user_id, filename, doc, query, priority, t) ==
    [ user_id       |-> user_id,
      filename      |-> filename,
      file_path     |-> doc,
      query         |-> query,
      priority      |-> priority,
      status        |-> "pending",
      created_at    |-> t,
      started_at    |-> NullTime,
      completed_at  |-> NullTime,
      error_message |-> NullText ]

\* An insert that takes the id of the newest row instead of a new one.
InsertOverNewest(table, row) ==
    IF table = << >> THEN << row >>
    ELSE [ table EXCEPT ![Len(table)] = row ]

\* db.add(row); db.commit() of a new row: the integer primary key gives it
\* the next id, and a table is the sequence of its rows by id.
Insert(table, row) == Append(table, row)

\* The ORM object of a context that holds none.
NoItem == NewQueueItem(0, "", "ok", "", 1, NullTime)

\* AnalysisResult(...) of process_document; job is the queue row that
\* produced it (the table itself has no such column).  created_at is not
\* given: the column default fills it in when the row is flushed.
NewResult(item, job) ==
    [ user_id    |-> item.user_id,
      filename   |-> item.filename,
      status     |-> "completed",
      job        |-> job,
      created_at |-> NullTime ]

\* No AnalysisResult is pending in the session.
NoRow == [ NewResult(NoItem, -1) EXCEPT !.status = "none" ]

\* database.py:40, default=datetime.utcnow: the flush of a commit reads
\* the clock for the created_at of a row it is about to insert.
Defaulted(row, t) == [ row EXCEPT !.created_at = t ]

\* Session.commit() of a loaded object: the UPDATE sets exactly the columns
\* whose assigned value differs from the value the object was loaded with.
Flush(row, loaded, assigned) ==
    [ f \in DOMAIN row |->
        IF f \in DOMAIN assigned /\ assigned[f] # loaded[f]
        THEN assigned[f] ELSE row[f] ]

\* The ORM object after a commit has expired it: no attribute is loaded,
\* so every assignment counts as a change of the column.
Expired ==
    [ NoItem EXCEPT !.status = "expired", !.started_at = -1,
                    !.completed_at = -1, !.error_message = "expired" ]

\* A session with nothing to flush.
NoSession == [ assigned |-> << >>, added |-> NoRow ]

\* Attribute assignments b made on top of assignments a.
Override(a, b) ==
    [ f \in DOMAIN a \cup DOMAIN b |-> IF f \in DOMAIN b THEN b[f] ELSE a[f] ]

NoReturn == [ kind |-> "none", id |-> 0, handle |-> << >> ]
\* get_queue_status(user_id=None): no owner given.
NoOwner == -1
\* A response that has no result_id key.
NoResult == 0

NoStatusView ==
    [ asked |-> << >>, http |-> 0, queue_id |-> 0, status |-> "none",
      user_id |-> 0,
      filename |-> "", started_at |-> NullTime, completed_at |-> NullTime,
      error |-> NullText, result_id |-> NoResult ]
NoQueueView ==
    [ user_id |-> NoOwner, total |-> 0, pending |-> 0, processing |-> 0,
      completed |-> 0, failed |-> 0 ]

(* ------------------------------- Init --------------------------------- *)
\* Empty tables (create_tables on a fresh file); the web process imports
\* queue_worker, which pings Redis once and keeps the answer.
Init ==
    /\ jobs = << >>
    /\ results = << >>
    /\ redisUp \in BOOLEAN
    /\ REDIS_CONNECTED = redisUp
    /\ enqueued = {}
    /\ delivered = [ j \in JobIds |-> 0 ]
    /\ pc = [ c \in Ctx |-> "idle" ]
    /\ queue_id = [ c \in Ctx |-> 0 ]
    /\ queue_item = [ c \in Ctx |-> NoItem ]
    /\ raised = [ c \in Ctx |-> FALSE ]
    /\ session = [ c \in Ctx |-> NoSession ]
    /\ alarm = [ c \in Ctx |-> "none" ]
    /\ ret = [ r \in Requests |-> NoReturn ]
    /\ now = [ j \in 0..MaxJobs |-> 1 ]
    /\ calls = [ j \in JobIds |-> 0 ]
    /\ path = [ j \in JobIds |-> "none" ]
    /\ outcome = [ j \in JobIds |-> "none" ]
    /\ pollPc = "idle"
    /\ statusView = NoStatusView
    /\ queueView = NoQueueView

(* --------------------------- environment ------------------------------ *)
\* The Redis server stops answering (and stays away for the rest of the
\* run).
RedisDown ==
    /\ redisUp
    /\ redisUp' = FALSE
    /\ UNCHANGED << jobs, results, REDIS_CONNECTED, enqueued, delivered, pc,
                    queue_id, queue_item, raised, session, alarm, ret, now,
                    calls, path, outcome, pollPc, statusView, queueView >>

\* Module initialisation of queue_worker in the web process: ping once,
\* keep the answer in REDIS_CONNECTED.
ProbeRedis(up) == up

\* The web process is started again (between requests); the tables are a
\* file and survive.
Restart ==
    /\ \A r \in Requests : pc[r] = "idle"
    /\ REDIS_CONNECTED # ProbeRedis(redisUp)
    /\ REDIS_CONNECTED' = ProbeRedis(redisUp)
    /\ UNCHANGED << jobs, results, redisUp, enqueued, delivered, pc, queue_id,
                    queue_item, raised, session, alarm, ret, now, calls, path,
                    outcome, pollPc, statusView, queueView >>

(* --------------------------- add_to_queue ----------------------------- *)
\* A fallback that runs the analysis itself, without the claim of lines
\* 93-95.
DispatchPcSkipsClaim(connected) == IF connected THEN "aq_enqueue" ELSE "pd_run"

\* Where add_to_queue goes after the commit of the new row: enqueue on the
\* broker when the module flag is set, else call process_document itself.
DispatchPc(connected) == IF connected THEN "aq_enqueue" ELSE "pd_load"

\* Lines 47-59: build the row, db.add, db.commit; the id is the next rowid.
CreateQueueItem(r, user_id, filename, doc, query, priority) ==
    /\ pc[r] = "idle"
    /\ Len(jobs) < MaxJobs
    /\ jobs' = Insert(jobs, NewQueueItem(user_id, filename, doc, query,
                                         priority, now[Len(jobs) + 1]))
    /\ now' = [ now EXCEPT ![Len(jobs) + 1] = @ + 1 ]
    /\ queue_id' = [ queue_id EXCEPT ![r] = Len(jobs) + 1 ]
    /\ pc' = [ pc EXCEPT ![r] = DispatchPc(REDIS_CONNECTED) ]
    /\ ret' = [ ret EXCEPT ![r] = NoReturn ]
    /\ UNCHANGED << results, redisUp, REDIS_CONNECTED, enqueued, delivered,
                    queue_item, raised, session, alarm, calls, path, outcome,
                    pollPc, statusView, queueView >>

\* Lines 63-69: queue.enqueue succeeds; the handle is queued_redis_<job.id>.
Enqueue(r) ==
    /\ pc[r] = "aq_enqueue"
    /\ redisUp
    /\ enqueued' = enqueued \cup { queue_id[r] }
    /\ path' = [ path EXCEPT ![queue_id[r]] = "queued" ]
    /\ ret' = [ ret EXCEPT ![r] =
                   [ kind |-> "queued_redis", id |-> queue_id[r],
                     handle |-> Handle("queued_redis", queue_id[r]) ] ]
    /\ pc' = [ pc EXCEPT ![r] = "idle" ]
    /\ queue_id' = [ queue_id EXCEPT ![r] = 0 ]
    /\ UNCHANGED << jobs, results, redisUp, REDIS_CONNECTED, delivered,
                    queue_item, raised, session, alarm, now, calls, outcome,
                    pollPc, statusView, queueView >>

\* Lines 63-68 and 75-79: queue.enqueue raises (the server went away after
\* import); the handler rolls back a session with nothing pending and
\* raises again, and the endpoint answers HTTP 500.  The committed row stays.
EnqueueRaises(r) ==
    /\ pc[r] = "aq_enqueue"
    /\ ~redisUp
    /\ path' = [ path EXCEPT ![queue_id[r]] = "error" ]
    /\ ret' = [ ret EXCEPT ![r] =
                   [ kind |-> "error", id |-> queue_id[r], handle |-> << >> ] ]
    /\ pc' = [ pc EXCEPT ![r] = "idle" ]
    /\ queue_id' = [ queue_id EXCEPT ![r] = 0 ]
    /\ UNCHANGED << jobs, results, redisUp, REDIS_CONNECTED, enqueued,
                    delivered, queue_item, raised, session, alarm, now, calls,
                    outcome, pollPc, statusView, queueView >>

(* ---------------------------- start_worker ---------------------------- *)
\* The broker may hand out a job id that was enqueued, also one it has
\* handed out before (at-least-once delivery).
Redeliveries == LET RECURSIVE Sum(_)
                    Sum(S) == IF S = {} THEN 0
                              ELSE LET j == CHOOSE x \in S : TRUE
                                   IN  (IF delivered[j] > 1 THEN delivered[j] - 1 ELSE 0)
                                       + Sum(S \ {j})
                IN  Sum(JobIds)

Deliverable(j) ==
    /\ j \in enqueued
    /\ delivered[j] = 0 \/ Redeliveries < MaxRedeliveries

\* worker.work(): an idle worker takes a job id from the queue and calls
\* process_document(queue_id).  The workers are alike, so of the idle ones
\* the lowest-numbered takes it.
WorkerTake(w, j) ==
    /\ pc[w] = "idle"
    /\ \A v \in Workers : pc[v] = "idle" => w <= v
    /\ redisUp
    /\ Deliverable(j)
    /\ delivered' = [ delivered EXCEPT ![j] = @ + 1 ]
    /\ queue_id' = [ queue_id EXCEPT ![w] = j ]
    /\ pc' = [ pc EXCEPT ![w] = "pd_load" ]
    /\ UNCHANGED << jobs, results, redisUp, REDIS_CONNECTED, enqueued,
                    queue_item, raised, session, alarm, ret, now, calls, path,
                    outcome, pollPc, statusView, queueView >>

(* -------------------------- process_document -------------------------- *)
\* What process_document hands back to its caller: the worker is idle
\* again; add_to_queue (line 73) ignores the result and returns the
\* processed_immediate_ handle.
ReturnTo(c) ==
    /\ pc' = [ pc EXCEPT ![c] = "idle" ]
    /\ queue_id' = [ queue_id EXCEPT ![c] = 0 ]
    /\ queue_item' = [ queue_item EXCEPT ![c] = NoItem ]
    /\ raised' = [ raised EXCEPT ![c] = FALSE ]
    /\ IF c \in Requests
       THEN /\ ret' = [ ret EXCEPT ![c] =
                          [ kind |-> "processed_immediate",
                            id |-> queue_id[c],
                            handle |-> Handle("processed_immediate",
                                              queue_id[c]) ] ]
            /\ path' = [ path EXCEPT ![queue_id[c]] = "immediate" ]
       ELSE UNCHANGED << ret, path >>

\* Line 89: the only condition under which process_document returns before
\* it claims the job.
ReturnsEarly(found, item) == ~found

\* Lines 88-90: load the row by id.
LoadQueueItem(c) ==
    /\ pc[c] = "pd_load"
    /\ LET found == queue_id[c] \in 1..Len(jobs)
           item  == IF found THEN jobs[queue_id[c]] ELSE NoItem
       IN  IF ReturnsEarly(found, item)
           THEN ReturnTo(c)
           ELSE /\ queue_item' = [ queue_item EXCEPT ![c] = item ]
                /\ pc' = [ pc EXCEPT ![c] = "pd_claim" ]
                /\ UNCHANGED << queue_id, raised, ret, path >>
    /\ UNCHANGED << jobs, results, redisUp, REDIS_CONNECTED, enqueued,
                    delivered, session, alarm, now, calls, outcome, pollPc,
                    statusView, queueView >>

\* Lines 93-94 without the assignment of started_at.
ClaimAssignedNoStart(t) == [ status |-> "processing" ]

\* Lines 93-94: the attributes assigned before the first commit.
ClaimAssigned(t) == [ status |-> "processing", started_at |-> t ]

\* Lines 93-94: mark the loaded object processing; datetime.utcnow() is
\* read here, the row is written only by the commit of line 95.
ClaimQueueItem(c) ==
    /\ pc[c] = "pd_claim"
    /\ session' = [ session EXCEPT ![c].assigned =
                      ClaimAssigned(now[queue_id[c]]) ]
    /\ now' = [ now EXCEPT ![queue_id[c]] = @ + 1 ]
    /\ pc' = [ pc EXCEPT ![c] = "pd_claim_commit" ]
    /\ UNCHANGED << jobs, results, redisUp, REDIS_CONNECTED, enqueued,
                    delivered, queue_id, queue_item, raised, alarm, ret,
                    calls, path, outcome, pollPc, statusView, queueView >>

\* Line 95: db.commit() writes the claim; the commit expires the loaded
\* object.
CommitClaim(c) ==
    /\ pc[c] = "pd_claim_commit"
    /\ jobs' = [ jobs EXCEPT ![queue_id[c]] =
                   Flush(@, queue_item[c], session[c].assigned) ]
    /\ session' = [ session EXCEPT ![c] = NoSession ]
    /\ queue_item' = [ queue_item EXCEPT ![c] = NoItem ]
    /\ pc' = [ pc EXCEPT ![c] = "pd_run" ]
    /\ UNCHANGED << results, redisUp, REDIS_CONNECTED, enqueued, delivered,
                    queue_id, raised, alarm, ret, now, calls, path, outcome,
                    pollPc, statusView, queueView >>

\* Lines 88-95 in a worker whose job runs into job_timeout before line 98
\* (the store stalls): JobTimeoutException surfaces outside the try of line
\* 98, the handler of lines 141-143 rolls back and process_document returns
\* an error dict.  Before the COMMIT of line 95 was executed the claim is
\* rolled back and the row stays as it was; after it the rollback has
\* nothing to undo and the row stays processing with started_at set, the
\* analysis never run.
ClaimRaises(c) ==
    /\ pc[c] \in { "pd_claim_commit", "pd_run" }
    /\ c \in Workers
    /\ jobs[queue_id[c]].file_path = "slow"
    /\ session' = [ session EXCEPT ![c] = NoSession ]
    /\ outcome' = [ outcome EXCEPT ![queue_id[c]] = "raised" ]
    /\ ReturnTo(c)
    /\ UNCHANGED << jobs, results, redisUp, REDIS_CONNECTED, enqueued,
                    delivered, alarm, now, calls, pollPc, statusView,
                    queueView >>

\* Whether lines 100-105 can end in the handler of line 132.
\* job_timeout='10m' (line 66) is enforced by the RQ worker only: there the
\* work on a slow document is interrupted by JobTimeoutException wherever
\* it is at that moment.  Inside _run (tools.py:33-62) or perform_analysis
\* (lines 149-193) the exception is caught and turned into text, and the job
\* goes on as if analysed; anywhere else in lines 98-130 it reaches line
\* 132.  The fallback call of line 72 runs under no timeout.  _run and
\* perform_analysis catch every other exception themselves; the reload of
\* the expired queue_item that line 100 begins with is QueueItemReloadRaises.
AnalysisRaises(c, item) ==
    IF c \in Workers /\ item.file_path = "slow"
    THEN { TRUE, FALSE }
    ELSE { FALSE }

\* Where the timeout of a worker surfaces when the analysis of a slow
\* document got through lines 100-105 without meeting it: "none" when it
\* was swallowed inside _run or perform_analysis, "save" when it surfaces in
\* lines 117-121 with the result added and the commit not begun, "flush"
\* when it surfaces inside the flush of the commit of line 123, "return"
\* when it surfaces in lines 125-130, after the commit of line 123.
AlarmAfterAnalysis(c, item, r) ==
    IF c \in Workers /\ item.file_path = "slow" /\ ~r
    THEN { "none", "save", "flush", "return" }
    ELSE { "none" }

\* FinancialDocumentTool._run (tools.py:33-62): a path with no file behind
\* it gives the text of line 39, a file PyPDF2 fails on gives the text of
\* line 62, anything else its content.  _run never raises.
ReadPdf(doc) ==
    CASE doc = "missing"   -> "Error: PDF file not found"
      [] doc = "malformed" -> "Error reading PDF file"
      [] OTHER             -> "content"

\* How lines 100-103 end: "raised" when the exception reaches line 132,
\* "swallowed" when the timeout was turned into text inside _run or
\* perform_analysis, else by what _run gave back: "not_found",
\* "unreadable", or "returned" for the content of the file.
AnalysisOutcome(c, item, r) ==
    CASE r -> "raised"
      [] ~r /\ TRUE \in AnalysisRaises(c, item) -> "swallowed"
      [] OTHER ->
           CASE ReadPdf(item.file_path) = "Error: PDF file not found"
                    -> "not_found"
             [] ReadPdf(item.file_path) = "Error reading PDF file"
                    -> "unreadable"
             [] OTHER -> "returned"

\* Lines 100-105: the expired object is loaded again, then the PDF is read
\* and analysed.  An analysis that the timeout has not met yet returned
\* the content of the file.
RunAnalysis(c) ==
    /\ pc[c] = "pd_run"
    /\ queue_item' = [ queue_item EXCEPT ![c] = jobs[queue_id[c]] ]
    /\ calls' = [ calls EXCEPT ![queue_id[c]] = @ + 1 ]
    /\ \E r \in AnalysisRaises(c, jobs[queue_id[c]]) :
       \E a \in AlarmAfterAnalysis(c, jobs[queue_id[c]], r) :
          /\ raised' = [ raised EXCEPT ![c] = r ]
          /\ alarm' = [ alarm EXCEPT ![c] = a ]
          /\ outcome' = [ outcome EXCEPT ![queue_id[c]] =
                            IF a = "none"
                            THEN AnalysisOutcome(c, jobs[queue_id[c]], r)
                            ELSE "returned" ]
    /\ pc' = [ pc EXCEPT ![c] = "pd_finish" ]
    /\ UNCHANGED << jobs, results, redisUp, REDIS_CONNECTED, enqueued,
                    delivered, queue_id, session, ret, now, path, pollPc,
                    statusView, queueView >>

\* Lines 120-121 without the assignment of the status.
CompletedAssignedNoStatus(t) == [ completed_at |-> t ]

\* Lines 120-121.
CompletedAssigned(t) == [ status |-> "completed", completed_at |-> t ]

\* Lines 134-136.
FailedAssigned(message, t) ==
    [ status |-> "failed", error_message |-> message, completed_at |-> t ]

\* Lines 107-121: build the result, db.add it, mark the object completed;
\* datetime.utcnow() is read here, nothing is written yet.
FinishCompleted(c) ==
    /\ pc[c] = "pd_finish"
    /\ ~raised[c]
    /\ session' = [ session EXCEPT ![c] =
                      [ assigned |-> CompletedAssigned(now[queue_id[c]]),
                        added |-> NewResult(queue_item[c], queue_id[c]) ] ]
    /\ now' = [ now EXCEPT ![queue_id[c]] = @ + 1 ]
    /\ pc' = [ pc EXCEPT ![c] = "pd_commit" ]
    /\ UNCHANGED << jobs, results, redisUp, REDIS_CONNECTED, enqueued,
                    delivered, queue_id, queue_item, raised, alarm, ret,
                    calls, path, outcome, pollPc, statusView, queueView >>

\* Line 123, the flush of db.commit(): the clock is read for created_at
\* of the result row before its INSERT is executed.
FlushCompleted(c) ==
    /\ pc[c] = "pd_commit"
    /\ alarm[c] \notin { "save", "flush" }
    /\ session[c].added.created_at = NullTime
    /\ session' = [ session EXCEPT ![c].added = Defaulted(@, now[0]) ]
    /\ now' = [ now EXCEPT ![0] = @ + 1 ]
    /\ UNCHANGED << jobs, results, redisUp, REDIS_CONNECTED, enqueued,
                    delivered, pc, queue_id, queue_item, raised, alarm, ret,
                    calls, path, outcome, pollPc, statusView, queueView >>

\* Line 123 with the timeout surfacing inside the flush: the flush rolls
\* its transaction back and raises; line 132 catches it and lines 134-136
\* assign (the clock is read); the commit of line 137 raises because the
\* session was not rolled back; the handler of lines 141-143 rolls back and
\* process_document returns an error dict.  Nothing is written: the row
\* stays processing, no result is stored.
FlushRaises(c) ==
    /\ pc[c] = "pd_commit"
    /\ alarm[c] = "flush"
    /\ session' = [ session EXCEPT ![c] = NoSession ]
    /\ now' = [ now EXCEPT ![queue_id[c]] = @ + 1 ]
    /\ alarm' = [ alarm EXCEPT ![c] = "none" ]
    /\ outcome' = [ outcome EXCEPT ![queue_id[c]] = "raised" ]
    /\ ReturnTo(c)
    /\ UNCHANGED << jobs, results, redisUp, REDIS_CONNECTED, enqueued,
                    delivered, calls, pollPc, statusView, queueView >>

\* Lines 123-130: db.commit() inserts the result and writes the completed
\* row in one transaction and expires the objects; then process_document
\* returns, unless the timeout surfaces in lines 125-130 and takes it to
\* the handler of line 132.
CommitCompleted(c) ==
    /\ pc[c] = "pd_commit"
    /\ session[c].added.created_at # NullTime
    /\ jobs' = [ jobs EXCEPT ![queue_id[c]] =
                   Flush(@, queue_item[c], session[c].assigned) ]
    /\ results' = Insert(results, session[c].added)
    /\ session' = [ session EXCEPT ![c] = NoSession ]
    /\ IF alarm[c] = "return"
       THEN /\ pc' = [ pc EXCEPT ![c] = "pd_finish" ]
            /\ raised' = [ raised EXCEPT ![c] = TRUE ]
            /\ alarm' = [ alarm EXCEPT ![c] = "none" ]
            /\ queue_item' = [ queue_item EXCEPT ![c] = Expired ]
            /\ UNCHANGED << queue_id, ret, path >>
       ELSE /\ ReturnTo(c)
            /\ UNCHANGED alarm
    /\ UNCHANGED << redisUp, REDIS_CONNECTED, enqueued, delivered, now, calls,
                    outcome, pollPc, statusView, queueView >>

\* The outcomes of an execution in which a lazy reload inside the try of
\* line 98 met a failing store: the reload of queue_item at line 100, of
\* result at line 127.
ReloadFaults == { "reload_fault", "result_fault" }

\* Line 135, str(e): the text of the exception that reached line 132, the
\* store's error or the timeout.
RaisedMessage(j) ==
    IF outcome[j] \in ReloadFaults THEN StoreMessage ELSE TimeoutMessage

\* Lines 132-136: the exception is caught (raised in lines 100-105, or the
\* timeout surfacing in lines 117-121 before the commit began, or in
\* lines 125-130); the object is marked failed with str(e) on top of what
\* was assigned before; datetime.utcnow() is read here.
FinishFailed(c) ==
    /\ \/ pc[c] = "pd_finish" /\ raised[c]
       \/ pc[c] = "pd_commit" /\ alarm[c] = "save"
    /\ session' = [ session EXCEPT ![c].assigned =
                      Override(@, FailedAssigned(RaisedMessage(queue_id[c]),
                                                 now[queue_id[c]])) ]
    /\ now' = [ now EXCEPT ![queue_id[c]] = @ + 1 ]
    /\ raised' = [ raised EXCEPT ![c] = TRUE ]
    /\ alarm' = [ alarm EXCEPT ![c] = "none" ]
    /\ outcome' = [ outcome EXCEPT ![queue_id[c]] =
                      IF @ \in ReloadFaults THEN @ ELSE "raised" ]
    /\ pc' = [ pc EXCEPT ![c] = "pd_fail_commit" ]
    /\ UNCHANGED << jobs, results, redisUp, REDIS_CONNECTED, enqueued,
                    delivered, queue_id, queue_item, ret, calls, path, pollPc,
                    statusView, queueView >>

\* Line 137, the flush of db.commit() when a result row was added to the
\* session and not committed: the clock is read for its created_at.
FlushFailed(c) ==
    /\ pc[c] = "pd_fail_commit"
    /\ session[c].added # NoRow
    /\ session[c].added.created_at = NullTime
    /\ session' = [ session EXCEPT ![c].added = Defaulted(@, now[0]) ]
    /\ now' = [ now EXCEPT ![0] = @ + 1 ]
    /\ UNCHANGED << jobs, results, redisUp, REDIS_CONNECTED, enqueued,
                    delivered, pc, queue_id, queue_item, raised, alarm, ret,
                    calls, path, outcome, pollPc, statusView, queueView >>

\* Lines 137-139: db.commit() writes the failed row, together with the
\* result row if one was added to the session and not committed; then
\* process_document returns.
CommitFailed(c) ==
    /\ pc[c] = "pd_fail_commit"
    /\ session[c].added = NoRow \/ session[c].added.created_at # NullTime
    /\ jobs' = [ jobs EXCEPT ![queue_id[c]] =
                   Flush(@, queue_item[c], session[c].assigned) ]
    /\ results' = IF session[c].added # NoRow
                  THEN Insert(results, session[c].added)
                  ELSE results
    /\ session' = [ session EXCEPT ![c] = NoSession ]
    /\ ReturnTo(c)
    /\ UNCHANGED << redisUp, REDIS_CONNECTED, enqueued, delivered, alarm, now,
                    calls, outcome, pollPc, statusView, queueView >>

(* ---------------------------- POST /analyze --------------------------- *)
\* The result rows that POST /analyze stored: rows that no queue job made.
ImmediateResults == { i \in 1..Len(results) : results[i].job = 0 }

\* The uploads explored: owner and filename, and whether reading or
\* analysing the upload raises.
Uploads ==
    { [ user_id |-> 1, filename |-> "a.pdf", raises |-> FALSE ],
      [ user_id |-> 1, filename |-> "a.pdf", raises |-> TRUE ] }

\* analyze_document_immediate up to the flush of line 258 (and
\* analyze_document of main.py, which stores the same row): the upload is
\* analysed in the request, an AnalysisResult is added, and the flush of
\* the commit reads the clock for its created_at; no AnalysisQueue row is
\* made or read.  An exception before the commit is answered with HTTP 500
\* and stores nothing.
AnalyzeDocumentImmediate(r, user_id, filename, raises) ==
    /\ pc[r] = "idle"
    /\ Cardinality(ImmediateResults) < MaxImmediate
    /\ IF raises
       THEN UNCHANGED << pc, session, now >>
       ELSE /\ pc' = [ pc EXCEPT ![r] = "im_commit" ]
            /\ session' = [ session EXCEPT ![r].added =
                              [ user_id |-> user_id, filename |-> filename,
                                status |-> "completed", job |-> 0,
                                created_at |-> now[0] ] ]
            /\ now' = [ now EXCEPT ![0] = @ + 1 ]
    /\ UNCHANGED << jobs, results, redisUp, REDIS_CONNECTED, enqueued,
                    delivered, queue_id, queue_item, raised, alarm, ret,
                    calls, path, outcome, pollPc, statusView, queueView >>

\* Lines 258-267: the INSERT is executed and committed, the endpoint
\* answers.
CommitImmediate(r) ==
    /\ pc[r] = "im_commit"
    /\ results' = Insert(results, session[r].added)
    /\ session' = [ session EXCEPT ![r] = NoSession ]
    /\ pc' = [ pc EXCEPT ![r] = "idle" ]
    /\ UNCHANGED << jobs, redisUp, REDIS_CONNECTED, enqueued, delivered,
                    queue_id, queue_item, raised, alarm, ret, now, calls,
                    path, outcome, pollPc, statusView, queueView >>

\* POST /analyze, every step of it.
Upload ==
    \/ \E r \in Requests, u \in Uploads :
          AnalyzeDocumentImmediate(r, u.user_id, u.filename, u.raises)
    \/ \E r \in Requests : CommitImmediate(r)

(* ------------------ GET /analyze/status/{queue_id} -------------------- *)
\* Lines 120-125: the id a handle names, for a handle int() accepts.
ActualId(handle) == ToInt(IdText(handle))

\* Lines 127-128: the SELECT by primary key finds a row.  The ids in the
\* table are 1..Len(jobs); the comparison is made digit by digit, so it is
\* defined for an int of any length.
QueueItemFound(handle) ==
    /\ ~IsNegative(IdText(handle))
    /\ \E j \in 1..Len(jobs) : Magnitude(IdText(handle)) = Magnitude(Str(j))

\* Lines 139-140: the error of the response; a NULL or empty
\* error_message is left out.
ResponseError(item) ==
    IF item.error_message \in { NullText, "" } THEN NullText
    ELSE item.error_message

\* Lines 118-140 and 155-156: parse the handle (a ValueError of int() is
\* answered with 400); look the row up (an int outside the range of a
\* SQLite INTEGER raises OverflowError at the bind, which line 155 does not
\* catch: the answer is 500); 404 when there is no row; else project it.  A
\* completed row sends the handler on to the result lookup.
GetAnalysisStatus(handle) ==
    /\ pollPc = "idle"
    /\ IF ~IsInt(IdText(handle))
       THEN /\ statusView' = [ NoStatusView EXCEPT !.asked = handle,
                                                    !.http = 400 ]
            /\ pollPc' = "respond"
       ELSE IF ~FitsInteger(IdText(handle))
       THEN /\ statusView' = [ NoStatusView EXCEPT !.asked = handle,
                                                    !.http = 500 ]
            /\ pollPc' = "respond"
       ELSE IF ~QueueItemFound(handle)
       THEN /\ statusView' = [ NoStatusView EXCEPT !.asked = handle,
                                                    !.http = 404 ]
            /\ pollPc' = "respond"
       ELSE LET actual_id == ActualId(handle)
                item == jobs[actual_id]
            IN  /\ statusView' =
                     [ asked |-> handle,
                       http |-> 200, queue_id |-> actual_id,
                       status |-> item.status,
                       user_id |-> item.user_id,
                       filename |-> item.filename,
                       started_at |-> item.started_at,
                       completed_at |-> item.completed_at,
                       error |-> ResponseError(item),
                       result_id |-> NoResult ]
                /\ pollPc' = IF item.status = "completed"
                             THEN "st_result" ELSE "respond"
    /\ UNCHANGED << jobs, results, redisUp, REDIS_CONNECTED, enqueued,
                    delivered, pc, queue_id, queue_item, raised, session,
                    alarm, ret, now, calls, path, outcome, queueView >>

\* Lines 144-147: of the result rows of the same user_id and filename,
\* the one with the latest created_at.
LatestResult(user_id, filename) ==
    LET hits == { i \in 1..Len(results) :
                    /\ results[i].user_id = user_id
                    /\ results[i].filename = filename }
    IN  IF hits = {} THEN NoResult
        ELSE CHOOSE i \in hits :
                \A k \in hits : results[k].created_at <= results[i].created_at

\* Lines 142-153: attach result_id and answer.
GetAnalysisResultId ==
    /\ pollPc = "st_result"
    /\ statusView' = [ statusView EXCEPT !.result_id =
                         LatestResult(statusView.user_id, statusView.filename) ]
    /\ pollPc' = "respond"
    /\ UNCHANGED << jobs, results, redisUp, REDIS_CONNECTED, enqueued,
                    delivered, pc, queue_id, queue_item, raised, session,
                    alarm, ret, now, calls, path, outcome, queueView >>

(* -------------------------- get_queue_status -------------------------- *)
\* Lines 199-201: "if user_id:" adds the owner filter.
QueueQuery(user_id) ==
    { i \in 1..Len(jobs) :
        (user_id # NoOwner /\ user_id # 0) => jobs[i].user_id = user_id }

\* query.filter(status == s).count()
CountStatus(user_id, status) ==
    Cardinality({ i \in QueueQuery(user_id) : jobs[i].status = status })

\* Line 203: the first of the five COUNT queries.
QueueStatusTotal(user_id) ==
    /\ pollPc = "idle"
    /\ queueView' = [ NoQueueView EXCEPT !.user_id = user_id,
                        !.total = Cardinality(QueueQuery(user_id)) ]
    /\ pollPc' = "qs_pending"
    /\ UNCHANGED << jobs, results, redisUp, REDIS_CONNECTED, enqueued,
                    delivered, pc, queue_id, queue_item, raised, session,
                    alarm, ret, now, calls, path, outcome, statusView >>

\* Lines 204-207: one COUNT query per status, each its own read.
QueueStatusCount(at, status, next) ==
    /\ pollPc = at
    /\ queueView' = [ queueView EXCEPT ![status] =
                        CountStatus(queueView.user_id, status) ]
    /\ pollPc' = next
    /\ UNCHANGED << jobs, results, redisUp, REDIS_CONNECTED, enqueued,
                    delivered, pc, queue_id, queue_item, raised, session,
                    alarm, ret, now, calls, path, outcome, statusView >>

\* The handles and owners a poller asks about.
PollHandles ==
    { Handle(k, j) :
        k \in { "queued_redis", "processed_immediate" }, j \in JobIds }
PollOwners == { NoOwner, 0, 1 }

\* The decimal texts of 2^63 - 1, the largest id the table can hold, and of
\* 2^63.
LargestInteger == [ i \in 1..Len(SqliteMaxInteger) |->
                      Digits[SqliteMaxInteger[i] + 1] ]
BeyondInteger == [ i \in 1..Len(SqliteMinMagnitude) |->
                     Digits[SqliteMinMagnitude[i] + 1] ]

\* Other texts a client can pass: ones int() accepts although they are
\* not what str() writes (sign, whitespace, underscore, digits of another
\* script, after a prefix or bare; ints at and beyond the ends of the range
\* of a SQLite INTEGER), and ones it rejects.
OddHandles ==
    { << "+", "1" >>, << "-", "1" >>, << " ", "1" >>, << "1", "\n" >>,
      << "1", "_", "0" >>, << "0", "1" >>, << "U+0661" >>, << "U+0967" >>,
      << "U+1D7D9" >>, << "U+00A0", "1" >>, << "U+001C", "1" >>,
      << "U+001F", "1" >>,
      QueuedPrefix \o JobIdPrefix \o << "+", "1" >>,
      ImmediatePrefix \o << " ", "1" >>,
      ImmediatePrefix \o << "1", "_", "0" >>,
      << "1", "_" >>, << "1", "_", "_", "0" >>, << "+" >>, << "1", " ", "0" >>,
      QueuedPrefix, JobIdPrefix,
      LargestInteger, << "-" >> \o BeyondInteger,
      BeyondInteger, ImmediatePrefix \o BeyondInteger,
      << "-" >> \o BeyondInteger \o << "0" >> }

\* What clients pass to GET /analyze/status/{queue_id}: handles as
\* add_to_queue formats them, for ids in the store and beyond it, the bare
\* number, and the odd texts.
StatusHandles ==
    { Handle(k, n) :
        k \in { "queued_redis", "processed_immediate" }, n \in 1..MaxHandleId }
    \cup { Str(n) : n \in 1..MaxHandleId }
    \cup OddHandles

\* The handler returns: the response is with the client, the polling
\* context is free again.
PollReturn ==
    /\ pollPc = "respond"
    /\ pollPc' = "idle"
    /\ statusView' = NoStatusView
    /\ queueView' = NoQueueView
    /\ UNCHANGED << jobs, results, redisUp, REDIS_CONNECTED, enqueued,
                    delivered, pc, queue_id, queue_item, raised, session,
                    alarm, ret, now, calls, path, outcome >>

Poll ==
    \/ \E h \in PollHandles : GetAnalysisStatus(h)
    \/ GetAnalysisResultId
    \/ \E u \in PollOwners : QueueStatusTotal(u)
    \/ QueueStatusCount("qs_pending", "pending", "qs_processing")
    \/ QueueStatusCount("qs_processing", "processing", "qs_completed")
    \/ QueueStatusCount("qs_completed", "completed", "qs_failed")
    \/ QueueStatusCount("qs_failed", "failed", "respond")
    \/ PollReturn

(* ------------------------------- Next --------------------------------- *)
Environment ==
    \/ RedisDown
    \/ Restart

Submit ==
    \/ \E r \in Requests, s \in Submissions :
          CreateQueueItem(r, s.user_id, s.filename, s.doc, s.query,
                          s.priority)
    \/ \E r \in Requests : Enqueue(r)

Execute ==
    \/ \E c \in Ctx : LoadQueueItem(c)
    \/ \E c \in Ctx : ClaimQueueItem(c)
    \/ \E c \in Ctx : CommitClaim(c)
    \/ \E c \in Ctx : ClaimRaises(c)
    \/ \E c \in Ctx : RunAnalysis(c)
    \/ \E c \in Ctx : FinishCompleted(c)
    \/ \E c \in Ctx : FinishFailed(c)
    \/ \E c \in Ctx : FlushCompleted(c)
    \/ \E c \in Ctx : FlushRaises(c)
    \/ \E c \in Ctx : CommitCompleted(c)
    \/ \E c \in Ctx : FlushFailed(c)
    \/ \E c \in Ctx : CommitFailed(c)

Next ==
    \/ Environment
    \/ Submit
    \/ \E r \in Requests : EnqueueRaises(r)
    \/ \E w \in Workers, j \in JobIds : WorkerTake(w, j)
    \/ Execute

Spec == Init /\ [][Next]_vars

\* The broker hands an id to a worker for the first time: enqueue at line
\* 63 passes no retry, so without a lost worker each id is delivered once.
FirstDelivery(w, j) ==
    /\ delivered[j] = 0
    /\ WorkerTake(w, j)

\* The life of a job under at-least-once delivery: the broker stays as it
\* was at start-up and may hand an id out again, to the same worker or to
\* another one while the first is still executing it.
NextAgain ==
    \/ \E r \in Requests, s \in Submissions :
          /\ Len(jobs) < MaxJobsAgain
          /\ CreateQueueItem(r, s.user_id, s.filename, s.doc, s.query,
                             s.priority)
    \/ \E r \in Requests : Enqueue(r)
    \/ \E w \in Workers, j \in JobIds : WorkerTake(w, j)
    \/ Execute

SpecAgain == Init /\ [][NextAgain]_vars

(* --------------------------- storage faults -------------------------- *)
\* Line 59 with the store failing: db.commit() raises, the handler of lines
\* 75-77 rolls the insert back and raises again, the endpoint answers HTTP
\* 500.  No row is stored and no id is used up.
CommitRaises(r) ==
    /\ pc[r] = "idle"
    /\ Len(jobs) < MaxJobs
    /\ ret' = [ ret EXCEPT ![r] =
                   [ kind |-> "error", id |-> 0, handle |-> << >> ] ]
    /\ UNCHANGED << jobs, results, redisUp, REDIS_CONNECTED, enqueued,
                    delivered, pc, queue_id, queue_item, raised, session,
                    alarm, now, calls, path, outcome, pollPc, statusView,
                    queueView >>

\* Lines 65 and 72 with the store failing: the commit of line 59 expired
\* queue_item, so reading queue_item.id loads the row again, and that
\* SELECT raises.  The rollback of line 76 has nothing to undo, the
\* exception goes up, the endpoint answers HTTP 500.  The row committed at
\* line 59 stays.
RefreshRaises(r) ==
    /\ r \in Requests
    /\ pc[r] \in { "aq_enqueue", "pd_load" }
    /\ path' = [ path EXCEPT ![queue_id[r]] = "fault" ]
    /\ ret' = [ ret EXCEPT ![r] =
                   [ kind |-> "error", id |-> queue_id[r], handle |-> << >> ] ]
    /\ pc' = [ pc EXCEPT ![r] = "idle" ]
    /\ queue_id' = [ queue_id EXCEPT ![r] = 0 ]
    /\ UNCHANGED << jobs, results, redisUp, REDIS_CONNECTED, enqueued,
                    delivered, queue_item, raised, session, alarm, now, calls,
                    outcome, pollPc, statusView, queueView >>

\* Line 88 with the store failing: the SELECT raises, the handler of lines
\* 141-143 rolls back and returns an error dict; add_to_queue (line 72)
\* drops it and returns the processed_immediate_ handle.
LoadRaises(c) ==
    /\ pc[c] = "pd_load"
    /\ queue_id[c] \in 1..Len(jobs)
    /\ outcome' = [ outcome EXCEPT ![queue_id[c]] = "store_fault" ]
    /\ ReturnTo(c)
    /\ UNCHANGED << jobs, results, redisUp, REDIS_CONNECTED, enqueued,
                    delivered, session, alarm, now, calls, pollPc, statusView,
                    queueView >>

\* Line 95 with the store failing: the UPDATE of the flush raises outside
\* the try of line 98; the handler of lines 141-143 rolls the claim back
\* and returns an error dict.  The row stays as it was.
CommitClaimRaises(c) ==
    /\ pc[c] = "pd_claim_commit"
    /\ session' = [ session EXCEPT ![c] = NoSession ]
    /\ outcome' = [ outcome EXCEPT ![queue_id[c]] = "claim_fault" ]
    /\ ReturnTo(c)
    /\ UNCHANGED << jobs, results, redisUp, REDIS_CONNECTED, enqueued,
                    delivered, alarm, now, calls, pollPc, statusView,
                    queueView >>

\* Line 123 with the store failing: the flush raises and rolls its
\* transaction back; line 132 catches, lines 134-136 assign (the clock is
\* read); the commit of line 137 raises because the session was not rolled
\* back; the handler of lines 141-143 rolls back and returns an error
\* dict.  Nothing is written: the row stays processing, no result is
\* stored.
CommitCompletedRaises(c) ==
    /\ pc[c] = "pd_commit"
    /\ alarm[c] \notin { "save", "flush" }
    /\ session' = [ session EXCEPT ![c] = NoSession ]
    /\ now' = [ now EXCEPT ![queue_id[c]] = @ + 1 ]
    /\ alarm' = [ alarm EXCEPT ![c] = "none" ]
    /\ outcome' = [ outcome EXCEPT ![queue_id[c]] = "commit_fault" ]
    /\ ReturnTo(c)
    /\ UNCHANGED << jobs, results, redisUp, REDIS_CONNECTED, enqueued,
                    delivered, calls, pollPc, statusView, queueView >>

\* Line 137 with the store failing: the commit raises inside the handler
\* of line 132; the handler of lines 141-143 rolls back and returns an
\* error dict.  The failure is not written: the row stays as the last
\* commit left it.  The outcome keeps which exception line 132 had caught.
CommitFailedRaises(c) ==
    /\ pc[c] = "pd_fail_commit"
    /\ session' = [ session EXCEPT ![c] = NoSession ]
    /\ outcome' = [ outcome EXCEPT ![queue_id[c]] =
                      CASE @ = "reload_fault" -> "reload_fail_fault"
                        [] @ = "result_fault" -> "result_fail_fault"
                        [] OTHER -> "fail_fault" ]
    /\ ReturnTo(c)
    /\ UNCHANGED << jobs, results, redisUp, REDIS_CONNECTED, enqueued,
                    delivered, alarm, now, calls, pollPc, statusView,
                    queueView >>

\* Line 100 with the store failing: the commit of line 95 has expired
\* queue_item, and the SELECT that reloads it for queue_item.file_path
\* raises inside the try of line 98, before _run is called; line 132
\* catches it.
QueueItemReloadRaises(c) ==
    /\ pc[c] = "pd_run"
    /\ queue_item' = [ queue_item EXCEPT ![c] = Expired ]
    /\ raised' = [ raised EXCEPT ![c] = TRUE ]
    /\ outcome' = [ outcome EXCEPT ![queue_id[c]] = "reload_fault" ]
    /\ pc' = [ pc EXCEPT ![c] = "pd_finish" ]
    /\ UNCHANGED << jobs, results, redisUp, REDIS_CONNECTED, enqueued,
                    delivered, queue_id, session, alarm, ret, now, calls,
                    path, pollPc, statusView, queueView >>

\* Lines 123-127 with the store failing after the commit: db.commit()
\* inserts the result, writes the completed row and expires the objects;
\* the SELECT that reloads result for result.id (line 127) raises inside
\* the try of line 98; line 132 catches it.
ResultReloadRaises(c) ==
    /\ pc[c] = "pd_commit"
    /\ session[c].added.created_at # NullTime
    /\ jobs' = [ jobs EXCEPT ![queue_id[c]] =
                   Flush(@, queue_item[c], session[c].assigned) ]
    /\ results' = Insert(results, session[c].added)
    /\ session' = [ session EXCEPT ![c] = NoSession ]
    /\ queue_item' = [ queue_item EXCEPT ![c] = Expired ]
    /\ raised' = [ raised EXCEPT ![c] = TRUE ]
    /\ alarm' = [ alarm EXCEPT ![c] = "none" ]
    /\ outcome' = [ outcome EXCEPT ![queue_id[c]] = "result_fault" ]
    /\ pc' = [ pc EXCEPT ![c] = "pd_finish" ]
    /\ UNCHANGED << redisUp, REDIS_CONNECTED, enqueued, delivered, queue_id,
                    ret, now, calls, path, pollPc, statusView, queueView >>

\* The outcomes of an execution that met a failing store.
StoreFaults ==
    { "store_fault", "claim_fault", "commit_fault", "fail_fault",
      "reload_fail_fault", "result_fail_fault" } \cup ReloadFaults

\* The store fails under process_document: at the SELECT of line 88, at
\* one of the commits of lines 95, 123 and 137, or at one of the reloads
\* of lines 100 and 127.
ExecuteFault ==
    \/ \E c \in Ctx : LoadRaises(c)
    \/ \E c \in Ctx : CommitClaimRaises(c)
    \/ \E c \in Ctx : QueueItemReloadRaises(c)
    \/ \E c \in Ctx : CommitCompletedRaises(c)
    \/ \E c \in Ctx : ResultReloadRaises(c)
    \/ \E c \in Ctx : CommitFailedRaises(c)

StorageFault ==
    \/ \E r \in Requests : CommitRaises(r)
    \/ \E r \in Requests : RefreshRaises(r)
    \/ ExecuteFault

\* The whole system with a broker that delivers every id once, over a
\* store that can fail at every read and commit of add_to_queue and of
\* process_document.
NextOnce ==
    \/ Environment
    \/ Submit
    \/ \E r \in Requests : EnqueueRaises(r)
    \/ \E w \in Workers, j \in JobIds : FirstDelivery(w, j)
    \/ Execute
    \/ StorageFault

SpecOnce == Init /\ [][NextOnce]_vars

\* The submissions whose document PyPDF2 reads: analysed inside job_timeout
\* or not.
Readable == { s \in Submissions : s.doc \in { "ok", "slow" } }

\* The system (broker as at start-up, every id delivered once, documents
\* that can be read) over a store that can fail at the reads and commits
\* of add_to_queue and of process_document.
NextFault ==
    \/ \E r \in Requests, s \in Readable :
          CreateQueueItem(r, s.user_id, s.filename, s.doc, s.query,
                          s.priority)
    \/ \E r \in Requests : Enqueue(r)
    \/ \E w \in Workers, j \in JobIds : FirstDelivery(w, j)
    \/ Execute
    \/ StorageFault

SpecFault == Init /\ [][NextFault]_vars

\* Everything a worker process does: take a job id, run process_document.
WorkerStep(w) ==
    \/ \E j \in JobIds : FirstDelivery(w, j)
    \/ LoadQueueItem(w)
    \/ ClaimQueueItem(w)
    \/ CommitClaim(w)
    \/ ClaimRaises(w)
    \/ RunAnalysis(w)
    \/ FinishCompleted(w)
    \/ FinishFailed(w)
    \/ FlushCompleted(w)
    \/ FlushRaises(w)
    \/ CommitCompleted(w)
    \/ FlushFailed(w)
    \/ CommitFailed(w)

\* The system while the broker stays as it was at start-up and delivers
\* every id once, with workers that keep consuming the queue: worker.work()
\* is a loop, so a worker that can take a step eventually takes one.
NextLive ==
    \/ Submit
    \/ \E w \in Workers, j \in JobIds : FirstDelivery(w, j)
    \/ Execute

\* The same steps for submissions whose document is read.
NextReadable ==
    \/ \E r \in Requests, s \in Readable :
          CreateQueueItem(r, s.user_id, s.filename, s.doc, s.query,
                          s.priority)
    \/ \E r \in Requests : Enqueue(r)
    \/ \E w \in Workers, j \in JobIds : FirstDelivery(w, j)
    \/ Execute

LiveSpec ==
    /\ Init
    /\ [][NextReadable]_vars
    /\ \A w \in Workers : WF_vars(WorkerStep(w))

\* Everything a context does inside process_document.
ExecuteStep(c) ==
    \/ LoadQueueItem(c)
    \/ ClaimQueueItem(c)
    \/ CommitClaim(c)
    \/ ClaimRaises(c)
    \/ RunAnalysis(c)
    \/ FinishCompleted(c)
    \/ FinishFailed(c)
    \/ FlushCompleted(c)
    \/ FlushRaises(c)
    \/ CommitCompleted(c)
    \/ FlushFailed(c)
    \/ CommitFailed(c)

\* The same system with every context that is inside process_document
\* scheduled fairly: the call is straight-line code, in a worker and in the
\* request that runs the fallback.
FairSpec ==
    /\ Init
    /\ [][NextLive]_vars
    /\ \A c \in Ctx : WF_vars(ExecuteStep(c))

\* The system in one mode (the broker stays as it was at start-up and
\* delivers every id once) with a poller reading the store at any moment,
\* between any two steps of the others.
\* The response of a poll leaves before any other context moves.
NextPoll ==
    \/ /\ pollPc # "respond"
       /\ \/ \E r \in Requests, s \in Readable :
                CreateQueueItem(r, s.user_id, s.filename, s.doc, s.query,
                                s.priority)
          \/ \E r \in Requests : Enqueue(r)
          \/ \E w \in Workers, j \in JobIds : FirstDelivery(w, j)
          \/ Execute
    \/ Poll

SpecPoll == Init /\ [][NextPoll]_vars

\* The same system with uploads to POST /analyze next to the jobs and with
\* clients of the status endpoint reading at any moment.
NextUpload ==
    \/ /\ pollPc # "respond"
       /\ \/ \E r \in Requests, s \in Readable :
                CreateQueueItem(r, s.user_id, s.filename, s.doc, s.query,
                                s.priority)
          \/ \E r \in Requests : Enqueue(r)
          \/ Upload
          \/ \E w \in Workers, j \in JobIds : FirstDelivery(w, j)
          \/ Execute
    \/ \E h \in PollHandles : GetAnalysisStatus(h)
    \/ GetAnalysisResultId
    \/ PollReturn

SpecUpload == Init /\ [][NextUpload]_vars

\* The same system with clients of the status endpoint only.
NextStatus ==
    \/ /\ pollPc # "respond"
       /\ \/ \E r \in Requests, s \in Readable :
                /\ Len(jobs) < MaxJobsStatus
                /\ CreateQueueItem(r, s.user_id, s.filename, s.doc,
                                   s.query, s.priority)
          \/ \E r \in Requests : Enqueue(r)
          \/ \E w \in Workers, j \in JobIds : FirstDelivery(w, j)
          \/ Execute
    \/ \E h \in StatusHandles : GetAnalysisStatus(h)
    \/ GetAnalysisResultId
    \/ PollReturn

SpecStatus == Init /\ [][NextStatus]_vars

(* ============================== claims ================================ *)
\* The result rows that executions of job j have inserted.
ResultsOf(j) == { i \in 1..Len(results) : results[i].job = j }

\* The contexts that are inside process_document for job j.
Executing(j) == { c \in Ctx : queue_id[c] = j /\ pc[c] \in
                    { "pd_load", "pd_claim", "pd_claim_commit", "pd_run",
                      "pd_finish", "pd_commit", "pd_fail_commit" } }

\* The contexts that have claimed job j (committed "processing") and have
\* not yet committed its terminal status.
Holding(j) ==
    { c \in Ctx :
        /\ queue_id[c] = j
        /\ pc[c] \in { "pd_run", "pd_finish", "pd_commit", "pd_fail_commit" } }

\* Position of a status in the order pending < processing < terminal.
Rank(status) ==
    CASE status = "pending"    -> 0
      [] status = "processing" -> 1
      [] OTHER                 -> 2

\* C1 (single claim): while two or more invocations of process_document
\* are in flight for the same job id, the analysis has been invoked for that
\* job at most once: one invocation runs it, the others are no-ops.
C1_SingleClaim ==
    \A j \in JobIds :
        Cardinality(Executing(j)) >= 2 => calls[j] <= 1

\* C2 (mutual exclusion): in every reachable state, for every job id, at
\* most one execution context is between claiming the job and writing its
\* terminal status.
C2_MutualExclusion ==
    \A j \in JobIds : Cardinality(Holding(j)) <= 1

\* C3 (state monotonicity): no step moves a job's stored status backward in
\* the order pending < processing < {completed, failed}.
C3_StatusMonotonic ==
    [][ \A j \in 1..Len(jobs) :
          Rank(jobs'[j].status) >= Rank(jobs[j].status) ]_vars

\* C4 (terminal immutability): once a job's status is completed or failed,
\* no step changes any field of its record.
C4_TerminalImmutable ==
    [][ \A j \in 1..Len(jobs) :
          jobs[j].status \in Terminal => jobs'[j] = jobs[j] ]_vars

\* C5 (idempotent redelivery): an execute that finds its job already
\* terminal (a redelivery after the first execution finished) returns at
\* once: it does not go on to claim the job and run the analysis, and it
\* leaves the record as it is.
C5_IdempotentRedelivery ==
    [][ \A c \in Ctx :
          ( /\ pc[c] = "pd_load"
            /\ pc'[c] # "pd_load"
            /\ queue_id[c] \in 1..Len(jobs)
            /\ jobs[queue_id[c]].status \in Terminal )
          => pc'[c] = "idle" /\ jobs' = jobs ]_vars

\* C6 (fallback submit): with REDIS_CONNECTED false add_to_queue never goes
\* to the broker but runs process_document in the request context, and
\* whenever it has returned the processed_immediate_ handle the job it names
\* was analysed in that context, was not enqueued, and its stored status is
\* terminal.
C6_FallbackSubmit ==
    \A r \in Requests :
        /\ ~REDIS_CONNECTED => pc[r] # "aq_enqueue"
        /\ pc[r] \in { "pd_load", "pd_claim", "pd_claim_commit", "pd_run",
                      "pd_finish", "pd_commit", "pd_fail_commit" }
              => ~REDIS_CONNECTED
        /\ ret[r].kind = "processed_immediate" =>
              /\ jobs[ret[r].id].status \in Terminal
              /\ calls[ret[r].id] = 1
              /\ ret[r].id \notin enqueued

\* C7 (broker failure degrades to fallback): no submit ends by handing a
\* broker error to its caller.
C7_BrokerFailureDegrades ==
    \A r \in Requests : ret[r].kind # "error"

\* C9 (no visible pending in fallback): with the broker unavailable, no
\* response of the status endpoint shows a job pending and no result of
\* get_queue_status counts a pending job.
C9_NoVisiblePending ==
    (~REDIS_CONNECTED /\ pollPc = "respond") =>
        /\ statusView.status # "pending"
        /\ queueView.pending = 0

\* What a submission asked for.
Input(j) ==
    [ user_id |-> jobs[j].user_id, filename |-> jobs[j].filename,
      file_path |-> jobs[j].file_path, query |-> jobs[j].query,
      priority |-> jobs[j].priority ]

\* Status and set/unset pattern of a job record and its result.
Pattern(j) ==
    [ status        |-> jobs[j].status,
      started_at    |-> jobs[j].started_at # NullTime,
      completed_at  |-> jobs[j].completed_at # NullTime,
      error_message |-> jobs[j].error_message # NullText,
      result        |-> \E i \in 1..Len(results) : results[i].job = j ]

\* Job j went the fallback path and its submit has returned.
FallbackDone(j) == path[j] = "immediate"

\* Job j was dispatched to the broker, delivered once, and that execution
\* has returned.
BrokerDone(j) ==
    /\ path[j] = "queued"
    /\ delivered[j] = 1
    /\ Executing(j) = {}

\* C10 (fallback transparency): a job run by the fallback path and a job of
\* identical input dispatched to the broker and executed once by a worker,
\* whose analyses ended the same way, have records of the same status and
\* the same set/unset pattern of started_at, completed_at, error_message
\* and result.
C10_FallbackTransparency ==
    \A a, b \in 1..Len(jobs) :
        ( /\ FallbackDone(a)
          /\ BrokerDone(b)
          /\ Input(a) = Input(b)
          /\ outcome[a] = outcome[b] )
        => Pattern(a) = Pattern(b)

\* C10 witness: both kinds of job exist, with identical input, both analysed.
C10_Witness ==
    \E a, b \in 1..Len(jobs) :
        /\ FallbackDone(a)
        /\ BrokerDone(b)
        /\ Input(a) = Input(b)
        /\ outcome[a] = "returned"
        /\ outcome[b] = "returned"
        /\ jobs[b].status = "completed"

\* Job j is with the broker.
Queued(j) == j \in enqueued /\ j \in 1..Len(jobs)

\* Job j is completed and get_queue_status, asked now, counts it under
\* completed, both over all owners and for the job's owner.
CountedCompleted(j) ==
    /\ j \in 1..Len(jobs)
    /\ jobs[j].status = "completed"
    /\ j \in QueueQuery(NoOwner)
    /\ j \in QueueQuery(jobs[j].user_id)
    /\ CountStatus(NoOwner, "completed") >= 1
    /\ CountStatus(jobs[j].user_id, "completed") >= 1

\* Job j has ended as its execution allows: counted completed when the
\* execution stays within job_timeout; when it runs into the timeout, the
\* execution has returned, in whatever status that has left the job.
Settled(j) ==
    /\ j \in 1..Len(jobs)
    /\ IF jobs[j].file_path = "slow"
       THEN outcome[j] # "none" /\ Executing(j) = {}
       ELSE CountedCompleted(j)

\* C8 as the claim states it (liveness in broker mode): every job handed to
\* the broker is eventually completed, and get_queue_status then counts it
\* under completed.
C8_EveryQueuedJobCompletes ==
    \A j \in JobIds :
        (j \in enqueued) ~> CountedCompleted(j)

\* C8 amended (liveness in broker mode): every job handed to the broker
\* whose execution stays within job_timeout is eventually completed,
\* whatever its priority and the order of delivery, and get_queue_status
\* then counts it under completed; the execution of a job that runs into
\* job_timeout eventually returns, and may leave the job completed, failed,
\* processing or pending.
C8_QueuedJobTerminates ==
    \A j \in JobIds :
        Queued(j) ~> Settled(j)

\* C8 witness: two jobs of different priority are with the broker, and the
\* one submitted later is completed while the earlier one is still pending.
C8_Witness ==
    /\ enqueued = { 1, 2 }
    /\ Len(jobs) = 2
    /\ jobs[1].priority # jobs[2].priority
    /\ jobs[1].status = "pending"
    /\ jobs[2].status = "completed"

\* Job j has been executed and no execution of it is in flight.
Executed(j) == calls[j] >= 1 /\ Executing(j) = {}

\* C11 (missing input at execution): a job whose file does not exist when
\* process_document reads it never ends completed, and once its execution
\* has returned it is failed with an error_message recording that.
C11_MissingInputFails ==
    \A j \in 1..Len(jobs) :
        jobs[j].file_path = "missing" =>
            /\ jobs[j].status # "completed"
            /\ Executed(j) =>
                  /\ jobs[j].status = "failed"
                  /\ jobs[j].error_message # NullText

\* The analysis step of the last execution of job j failed: the file could
\* not be parsed, or the job ran into its timeout.
AnalysisFailed(j) == outcome[j] \in { "unreadable", "swallowed", "raised" }

\* C12 (analysis failure): a job whose analysis step failed is, once its
\* execution has returned, failed with the failure's message in
\* error_message (the timeout's message for a timeout); it is not completed.
C12_AnalysisFailureFails ==
    \A j \in 1..Len(jobs) :
        (AnalysisFailed(j) /\ Executed(j)) =>
            /\ jobs[j].status = "failed"
            /\ jobs[j].error_message # NullText
            /\ outcome[j] \in { "swallowed", "raised" } =>
                  jobs[j].error_message = TimeoutMessage

\* C13 (InvalidInput at submit): no job record is ever created for a
\* submission whose file does not exist or whose query is empty.
C13_InvalidInputRejected ==
    \A j \in 1..Len(jobs) :
        /\ jobs[j].file_path # "missing"
        /\ jobs[j].query # ""

\* The submit of job j met a storage fault: one that went up to the caller,
\* or one inside the fallback's process_document.
FaultedSubmit(j) ==
    \/ path[j] = "fault"
    \/ path[j] = "immediate" /\ outcome[j] \in StoreFaults

\* C14 (clean abort on storage fault): the store holds no job record of a
\* submission that met a storage fault, and every such fault was handed to
\* the caller as an error.
C14_CleanAbort ==
    /\ \A j \in 1..Len(jobs) : ~FaultedSubmit(j)
    /\ \A r \in Requests :
          ret[r].kind = "processed_immediate" =>
              outcome[ret[r].id] \notin StoreFaults

\* The last execution of job j met an input, analysis or timeout failure.
ExecutionFailed(j) ==
    outcome[j] \in { "not_found", "unreadable", "swallowed", "raised" }

\* The execution of job j handed no exception to whoever triggered it: a
\* fallback submit got its handle, a worker is idle again.
ReturnedNormally(j) ==
    /\ path[j] \in { "queued", "immediate" }
    /\ \A r \in Requests : ret[r].id = j => ret[r].kind # "error"

\* C15 (execution failures are not re-raised): when an execution that met
\* an input, analysis or timeout failure has returned, nothing was raised
\* to the worker or the fallback submit that triggered it, and the failure
\* shows as status failed with an error_message on the job record.
C15_FailureOnlyOnRecord ==
    \A j \in 1..Len(jobs) :
        (ExecutionFailed(j) /\ Executed(j)) =>
            /\ ReturnedNormally(j)
            /\ jobs[j].status = "failed"
            /\ jobs[j].error_message # NullText

\* Job j is stored as processing.
Processing(j) == j \in 1..Len(jobs) /\ jobs[j].status = "processing"

\* Job j is stored as failed with the timeout's message.
TimedOut(j) ==
    /\ j \in 1..Len(jobs)
    /\ jobs[j].status = "failed"
    /\ jobs[j].error_message = TimeoutMessage

\* C16 (no job stuck in processing): every job that is processing is
\* eventually completed or failed, and one whose processing outlasts the
\* job timeout eventually ends failed with the timeout's message, whether a
\* worker or the fallback submit executes it.
C16_NoStuckProcessing ==
    \A j \in JobIds :
        /\ Processing(j) ~> (j \in 1..Len(jobs) /\ jobs[j].status \in Terminal)
        /\ (Processing(j) /\ jobs[j].file_path = "slow") ~> TimedOut(j)

\* C17 (error_message iff failed): in every state every job has an
\* error_message exactly when its status is failed, also after it was
\* executed more than once.
C17_ErrorIffFailed ==
    \A j \in 1..Len(jobs) :
        (jobs[j].error_message # NullText /\ jobs[j].error_message # "")
            <=> jobs[j].status = "failed"

\* C18 (started_at iff claimed): in every state every job has started_at
\* set exactly when its status is processing, completed or failed.
C18_StartedIffClaimed ==
    \A j \in 1..Len(jobs) :
        jobs[j].started_at # NullTime
            <=> jobs[j].status \in { "processing", "completed", "failed" }

\* C18 witness: job 1 was completed and then failed by a timeout that
\* surfaced after the commit of line 123, job 2 has been claimed by the
\* other worker and is processing; both have started_at set.
C18_Witness ==
    /\ Len(jobs) = 2
    /\ jobs[1].status = "failed"
    /\ ResultsOf(1) # {}
    /\ jobs[1].started_at # NullTime
    /\ jobs[2].status = "processing"
    /\ jobs[2].started_at # NullTime

\* C19 (completed_at iff terminal): in every state every job has
\* completed_at set exactly when its status is completed or failed.
C19_CompletedIffTerminal ==
    \A j \in 1..Len(jobs) :
        jobs[j].completed_at # NullTime <=> jobs[j].status \in Terminal

\* C20 (started before completed): every job in a terminal state has
\* started_at and completed_at set, with started_at <= completed_at, under
\* any interleaving of the executions of that job.
C20_StartedBeforeCompleted ==
    \A j \in 1..Len(jobs) :
        jobs[j].status \in Terminal =>
            /\ jobs[j].started_at # NullTime
            /\ jobs[j].completed_at # NullTime
            /\ jobs[j].started_at <= jobs[j].completed_at

\* C21 (completed iff result): in every state a job is completed exactly
\* when a result row of that job is stored: the row and the status become
\* visible in one commit, and a job that is not completed has no result.
C21_CompletedIffResult ==
    \A j \in 1..Len(jobs) :
        jobs[j].status = "completed" <=> ResultsOf(j) # {}

\* The ids that a submit has handed back in a handle so far.
Returned == { j \in 1..Len(jobs) : path[j] \in { "queued", "immediate" } }

\* The handles that add_to_queue can have returned for job j.
HandlesOf(j) == { Handle("queued_redis", j), Handle("processed_immediate", j) }

\* The text is the decimal text of an id in the store, as int() reads it.
NamesStoredId(text) ==
    /\ Strip(text)[1] # "-"
    /\ \E j \in 1..Len(jobs) : Magnitude(text) = Magnitude(Str(j))

\* C22 (status NotFound): a status request that names an id not in the
\* store is answered 404, one that names an id in the store is answered
\* 200, in particular every request with the handle of a job that a submit
\* has returned; the lookup changes neither table.
C22_NotFoundIffUnknown ==
    [][ ( pollPc = "idle" /\ statusView' # statusView
          /\ IsInt(IdText(statusView'.asked)) )
        => /\ statusView'.http \in { 200, 404 }
           /\ statusView'.http = 404
                 <=> ~NamesStoredId(IdText(statusView'.asked))
           /\ \A j \in Returned :
                 statusView'.asked \in HandlesOf(j) => statusView'.http = 200
           /\ jobs' = jobs
           /\ results' = results ]_vars

\* The jobs of owner u, all jobs when no owner is given.
OwnedBy(u) ==
    { i \in 1..Len(jobs) : u # NoOwner => jobs[i].user_id = u }

\* The jobs of owner u that are in status s.
OwnedIn(u, s) == { i \in OwnedBy(u) : jobs[i].status = s }

\* C23 (queueStatus counts): each number get_queue_status reads is the
\* count over exactly the jobs of the owner asked for (owner 0 included),
\* over all jobs when no owner is given, in the store as it is at that read.
C23_CountsPerOwner ==
    [][ /\ ( pollPc = "idle" /\ pollPc' = "qs_pending" )
            => queueView'.total = Cardinality(OwnedBy(queueView'.user_id))
        /\ \A s \in Statuses :
              queueView'[s] # queueView[s]
                 => queueView'[s] = Cardinality(OwnedIn(queueView'.user_id, s))
      ]_vars

\* C24 (snapshot consistency): in every result get_queue_status returns,
\* total is the sum of the four per-status counts.
C24_SnapshotConsistent ==
    pollPc = "respond" =>
        queueView.total = queueView.pending + queueView.processing
                          + queueView.completed + queueView.failed

\* The store fails under the read that context c is about to make: the
\* reload of queue_item.id (line 72) or the SELECT of line 88 raises.
LoadFaulted(c) == LoadRaises(c) \/ RefreshRaises(c)

Committing(j) ==
    { c \in Ctx :
        /\ queue_id[c] = j
        /\ pc[c] \in { "pd_claim_commit", "pd_commit", "pd_fail_commit" } }

\* C26 (frame of the job store): no step removes a row of the queue table;
\* a step changes an existing row only if it is a step of a
\* process_document call for that row's id; a submit leaves every existing
\* row as it is, and so does every step of the status endpoint and of
\* get_queue_status.
C26_JobStoreFrame ==
    [][ /\ Len(jobs') >= Len(jobs)
        /\ \A j \in 1..Len(jobs) :
              jobs'[j] # jobs[j]
                 => \E c \in Committing(j) : pc'[c] # pc[c]
        /\ ( \E r \in Requests :
                pc[r] \in { "idle", "aq_enqueue" } /\ pc'[r] # pc[r] )
              => SubSeq(jobs', 1, Len(jobs)) = jobs
        /\ ( pollPc' # pollPc \/ statusView' # statusView
             \/ queueView' # queueView )
              => jobs' = jobs ]_vars

\* C26 witness: job 1 has been executed to completed, a second job has
\* been submitted after it, and the client has read the counts of the
\* queue.
C26_Witness ==
    /\ Len(jobs) = 2
    /\ jobs[1].status = "completed"
    /\ jobs[2].created_at # NullTime
    /\ pollPc = "respond"
    /\ queueView.total = 2
    /\ queueView.completed = 1

\* C27 (exactly one dispatch path): when a submit returns a handle, either
\* it has just put the id on the broker, the job has not been analysed and
\* the handle starts with queued_redis_, or process_document has run the
\* analysis of the id once in the request context, the id is not on the
\* broker and the handle starts with processed_immediate_.
C27_ExactlyOneDispatchPath ==
    [][ \A r \in Requests :
          ( /\ ret'[r] # ret[r]
            /\ ret'[r].kind \in { "queued_redis", "processed_immediate" } )
          => LET id == ret'[r].id
                 handle == ret'[r].handle
                 dispatched == /\ pc[r] = "aq_enqueue"
                               /\ id \notin enqueued
                               /\ id \in enqueued'
                 executed == /\ pc[r] \in { "pd_commit", "pd_fail_commit" }
                             /\ queue_id[r] = id
                             /\ calls'[id] = 1
             IN  /\ id \in 1..Len(jobs)
                 /\ dispatched # executed
                 /\ dispatched
                       => /\ calls'[id] = 0
                          /\ StartsWith(handle, QueuedPrefix)
                          /\ ~StartsWith(handle, ImmediatePrefix)
                 /\ executed
                       => /\ id \notin enqueued'
                          /\ delivered'[id] = 0
                          /\ StartsWith(handle, ImmediatePrefix)
                          /\ ~StartsWith(handle, QueuedPrefix) ]_vars

\* The formatting of lines 69 and 73 followed by the parsing of lines
\* 120-125 gives every id back, for both kinds of handle and for ids of one
\* and of two digits.
RoundTripIds ==
    \A n \in 1..MaxHandleId :
        \A k \in { "queued_redis", "processed_immediate" } :
            IsInt(IdText(Handle(k, n))) /\ ActualId(Handle(k, n)) = n

\* C28 (handle round trip): the handle of either mode, formatted for any
\* id and parsed by the status endpoint, names that id; and whenever the
\* status endpoint is asked with the very handle a submit has returned, the
\* id it looks up is the id of the row that submit created, and the row is
\* found.
C28_HandleRoundTrip ==
    [][ /\ RoundTripIds
        /\ \A r \in Requests :
              ( /\ pollPc = "idle"
                /\ statusView' # statusView
                /\ ret[r].kind \in { "queued_redis", "processed_immediate" }
                /\ statusView'.asked = ret[r].handle )
              => /\ statusView'.http = 200
                 /\ statusView'.queue_id = ret[r].id
                 /\ statusView'.user_id = jobs[ret[r].id].user_id
                 /\ statusView'.status = jobs[ret[r].id].status ]_vars

\* C28 witness: the submit returned the broker's handle of job 1, the
\* status endpoint was asked with it and answered for job 1.
C28_Witness ==
    /\ ret[0].kind = "queued_redis"
    /\ ret[0].id = 1
    /\ pollPc = "respond"
    /\ statusView.asked = ret[0].handle
    /\ statusView.asked = QueuedPrefix \o JobIdPrefix \o << "1" >>
    /\ statusView.queue_id = 1
    /\ statusView.http = 200

\* C29 (result identity in status): when the status endpoint answers for a
\* completed job with a result_id, that result is the one the execution of
\* this same job stored.
C29_ResultOfSameJob ==
    ( /\ pollPc = "respond"
      /\ statusView.http = 200
      /\ statusView.status = "completed" )
    => statusView.result_id \in ResultsOf(statusView.queue_id)

\* C30 (at most one result per job): there are never more result rows made
\* by the queue path than completed jobs, and no job has two result rows.
C30_AtMostOneResult ==
    /\ Len(results) - Cardinality(ImmediateResults)
          <= Cardinality({ j \in 1..Len(jobs) : jobs[j].status = "completed" })
    /\ \A j \in 1..Len(jobs) : Cardinality(ResultsOf(j)) <= 1

====
